---- MODULE Spec2Model ----
(***************************************************************************)
(* A model of generate_stats.py: the GraphQL client (gql_request), the     *)
(* window chunking and folding of fetch_all_contributions, the repository  *)
(* walk of fetch_repo_stats, the number formatting of fmt_num and the      *)
(* series geometry of make_monthly_svg.                                    *)
(*                                                                         *)
(* Time is counted in ticks: TicksPerDay ticks to a day, day 0 being       *)
(* 2020-01-01 (the date of the default createdAt).  JSON objects are       *)
(* functions from key strings to values (a missing key is absent from the  *)
(* DOMAIN), JSON lists are sequences, and a JSON null in an object         *)
(* position is the value Null.                                             *)
(***************************************************************************)
EXTENDS Integers, Sequences, FiniteSets, TLC

VARIABLES
    clock,          \* the wall clock (ticks)
    \* fetch_all_contributions
    use_viewer,     \* USE_VIEWER
    pc,             \* "account" | "loop" | "done" | "raised" | "idle"
    family,         \* which family of responses the source answers with
    created,        \* account creation time (ticks)
    now,            \* utcnow() as read at line 199 (ticks)
    chunk_start,    \* start of the next window (ticks)
    windows,        \* the (from, to) variables submitted so far
    colls,          \* the responses received for them
    totals,         \* commits / prs / reviews / issues
    monthly,        \* "YYYY-MM" -> count
    lang_bytes,     \* language name -> [bytes, color]
    \* gql_request
    gpc,            \* "try" | "returned" | "idle"
    attempt,        \* the loop variable of line 93
    outcomes,       \* what each attempt met
    sleeps,         \* the time.sleep() calls made, in seconds
    gresult,        \* the value returned
    \* fetch_repo_stats
    rpc,            \* "walk" | "done" | "raised" | "idle"
    cursor,
    repo_count,
    star_count,
    fetched,        \* the cursors the queries of line 267 were built with
    refetched,      \* those of them a query was built with more than once
    \* fmt_num
    fpc,            \* "call" | "done" | "idle"
    fn,             \* the argument
    fout,           \* the string returned
    \* make_monthly_svg, as main calls it for the two themes
    dpc,            \* "dark" | "light" | "written" | "idle"
    dmonthly,       \* the monthly argument
    docs            \* theme -> the chart of the document rendered

contribVars == <<use_viewer, pc, family, created, now, chunk_start, windows,
                 colls, totals, monthly, lang_bytes>>
gqlVars == <<gpc, attempt, outcomes, sleeps, gresult>>
repoVars == <<rpc, cursor, repo_count, star_count, fetched, refetched>>
fmtVars == <<fpc, fn, fout>>
docVars == <<dpc, dmonthly, docs>>

vars == <<clock, contribVars, gqlVars, repoVars, fmtVars, docVars>>

-----------------------------------------------------------------------------
(* Bounds of the model *)

TicksPerDay == 2
MaxNowDay == 735
MaxRepos == 4
MaxFmtSmall == 2100
MaxVal == 6
RenderSpan == 40
MaxTicks == 4

-----------------------------------------------------------------------------
(* Python helpers *)

Null == [isNull |-> TRUE]
EmptyObj == << >>

\* dict.get(k, default)
Get(d, k, default) == IF k \in DOMAIN d THEN d[k] ELSE default

\* truth value of an object-or-None: None and {} are falsy
TruthyObj(v) == v # Null /\ DOMAIN v # {}

\* a or b, on objects
OrObj(a, b) == IF TruthyObj(a) THEN a ELSE b

Min(a, b) == IF a <= b THEN a ELSE b
Max(a, b) == IF a >= b THEN a ELSE b

-----------------------------------------------------------------------------
(* The calendar: datetime, strftime and strptime *)

BaseYear == 2020

IsLeap(y) == (y % 4 = 0 /\ y % 100 # 0) \/ y % 400 = 0

DaysInYear(y) == IF IsLeap(y) THEN 366 ELSE 365

DaysInMonth(y, m) ==
    IF m = 2 THEN (IF IsLeap(y) THEN 29 ELSE 28)
    ELSE IF m \in {4, 6, 9, 11} THEN 30 ELSE 31

RECURSIVE YearOfDay(_, _)
\* <<year, day of the year (0-based)>> of day number d, counted from 1 Jan of y
YearOfDay(d, y) ==
    IF d < 0 THEN YearOfDay(d + DaysInYear(y - 1), y - 1)
    ELSE IF d >= DaysInYear(y) THEN YearOfDay(d - DaysInYear(y), y + 1)
    ELSE <<y, d>>

RECURSIVE MonthOfDay(_, _, _)
\* <<month, day of the month>> of the 0-based day d of year y, from month m on
MonthOfDay(y, d, m) ==
    IF d >= DaysInMonth(y, m) THEN MonthOfDay(y, d - DaysInMonth(y, m), m + 1)
    ELSE <<m, d + 1>>

\* the calendar date <<year, month, day>> of a day number
DateOfDay(d) ==
    LET yd == YearOfDay(d, BaseYear)
        md == MonthOfDay(yd[1], yd[2], 1)
    IN  <<yd[1], md[1], md[2]>>

RECURSIVE DaysBeforeYear(_)
DaysBeforeYear(y) ==
    IF y = BaseYear THEN 0
    ELSE IF y > BaseYear THEN DaysBeforeYear(y - 1) + DaysInYear(y - 1)
    ELSE DaysBeforeYear(y + 1) - DaysInYear(y)

RECURSIVE DaysBeforeMonth(_, _)
DaysBeforeMonth(y, m) ==
    IF m = 1 THEN 0 ELSE DaysBeforeMonth(y, m - 1) + DaysInMonth(y, m - 1)

\* the day number of a calendar date
DayOfDate(y, m, d) == DaysBeforeYear(y) + DaysBeforeMonth(y, m) + (d - 1)

Digits == <<"0", "1", "2", "3", "4", "5", "6", "7", "8", "9">>

DigitStr(n) == Digits[n + 1]

DigitVal(c) == CHOOSE n \in 0..9 : Digits[n + 1] = c

\* "%02d" and "%04d"
Pad2(n) == DigitStr((n \div 10) % 10) \o DigitStr(n % 10)
Pad4(n) == Pad2(n \div 100) \o Pad2(n % 100)

\* int() of the digits s[i..j]
RECURSIVE ParseInt(_, _, _)
ParseInt(s, i, j) ==
    IF j < i THEN 0
    ELSE 10 * ParseInt(s, i, j - 1) + DigitVal(SubSeq(s, j, j))

DayOfTime(dt) == dt \div TicksPerDay

\* dt.strftime("%Y-%m-%d")
StrfDate(dt) ==
    LET ymd == DateOfDay(DayOfTime(dt))
    IN  Pad4(ymd[1]) \o "-" \o Pad2(ymd[2]) \o "-" \o Pad2(ymd[3])

\* dt.strftime("%Y-%m")
StrfMonth(dt) ==
    LET ymd == DateOfDay(DayOfTime(dt))
    IN  Pad4(ymd[1]) \o "-" \o Pad2(ymd[2])

\* datetime.strptime(s, "%Y-%m-%d"): midnight of that date
Strptime(s) ==
    DayOfDate(ParseInt(s, 1, 4), ParseInt(s, 6, 7), ParseInt(s, 9, 10))
        * TicksPerDay

\* s[:n]
Prefix(s, n) == SubSeq(s, 1, Min(n, Len(s)))

date_str(dt) == StrfDate(dt) \o "T00:00:00Z"

\* dt + timedelta(days=n)
AddDays(dt, n) == dt + n * TicksPerDay

-----------------------------------------------------------------------------
(* fetch_all_contributions: folding one window's payload *)

ZeroTotals == [commits |-> 0, prs |-> 0, reviews |-> 0, issues |-> 0]

DefaultLang == [bytes |-> 0, color |-> "#888888"]

\* a slip: totals[k] = n
OverwriteCount(old, n) == n

\* totals[k] += n
AddCount(old, n) == old + n

\* d[k] += n on a defaultdict(int)
AddTo(d, k, n) ==
    IF k \in DOMAIN d THEN [d EXCEPT ![k] = @ + n] ELSE d @@ (k :> n)

\* coll = (data.get("viewer") or data.get("user") or {})
\*            .get("contributionsCollection", {})
\* raises when data is None (the response said "data": null)
ActorOf(data) ==
    OrObj(Get(data, "viewer", Null), OrObj(Get(data, "user", Null), EmptyObj))

CollRaises(data) == data = Null

CollOf(data) == Get(ActorOf(data), "contributionsCollection", EmptyObj)

FoldTotals(t, coll) ==
    [commits |-> AddCount(t.commits, Get(coll, "totalCommitContributions", 0)),
     prs     |-> AddCount(t.prs, Get(coll, "totalPullRequestContributions", 0)),
     reviews |-> AddCount(t.reviews,
                          Get(coll, "totalPullRequestReviewContributions", 0)),
     issues  |-> AddCount(t.issues, Get(coll, "totalIssueContributions", 0))]

\* d = day.get("date", "")[:7]; monthly[d] += day.get("contributionCount", 0)
FoldDay(m, day) ==
    AddTo(m, Prefix(Get(day, "date", ""), 7), Get(day, "contributionCount", 0))

RECURSIVE FoldDays(_, _, _)
FoldDays(m, days, i) ==
    IF i > Len(days) THEN m ELSE FoldDays(FoldDay(m, days[i]), days, i + 1)

RECURSIVE FoldWeeks(_, _, _)
FoldWeeks(m, weeks, i) ==
    IF i > Len(weeks) THEN m
    ELSE FoldWeeks(FoldDays(m, Get(weeks[i], "contributionDays", << >>), 1),
                   weeks, i + 1)

FoldCalendar(m, coll) ==
    FoldWeeks(m, Get(Get(coll, "contributionCalendar", EmptyObj), "weeks", << >>), 1)

\* a slip: the fork test left out
NeverSkipped(repo) == FALSE

\* if repo.get("isFork"): continue
IsSkipped(repo) == Get(repo, "isFork", FALSE)

\* a slip: lang_bytes[name]["bytes"] = size
OverwriteBytes(old, size) == size

\* lang_bytes[name]["bytes"] += size
EdgeBytes(old, size) == old + size

\* color = lang.get("color") or "#888888" (a null color is the absent key)
ColorOf(lang) ==
    IF Get(lang, "color", "") = "" THEN "#888888" ELSE lang["color"]

FoldEdge(lb, edge) ==
    LET lang  == Get(edge, "node", EmptyObj)
        name  == Get(lang, "name", "Other")
        size  == Get(edge, "size", 0)
        cur   == Get(lb, name, DefaultLang)
        entry == [bytes |-> EdgeBytes(cur.bytes, size), color |-> ColorOf(lang)]
    IN  IF name \in DOMAIN lb THEN [lb EXCEPT ![name] = entry]
        ELSE lb @@ (name :> entry)

RECURSIVE FoldEdges(_, _, _)
FoldEdges(lb, edges, i) ==
    IF i > Len(edges) THEN lb ELSE FoldEdges(FoldEdge(lb, edges[i]), edges, i + 1)

\* repo = contrib.get("repository", {}); repo.get(...) raises on None
RepoRaises(contrib) == Get(contrib, "repository", EmptyObj) = Null

FoldRepo(lb, contrib) ==
    LET repo == Get(contrib, "repository", EmptyObj)
    IN  IF IsSkipped(repo) THEN lb
        ELSE FoldEdges(lb, Get(Get(repo, "languages", EmptyObj), "edges", << >>), 1)

RECURSIVE FoldRepos(_, _, _)
FoldRepos(lb, contribs, i) ==
    IF i > Len(contribs) THEN lb
    ELSE FoldRepos(FoldRepo(lb, contribs[i]), contribs, i + 1)

\* whether the body of the loop (lines 226-250) raises on this response
FoldRaises(data) ==
    \/ CollRaises(data)
    \/ CollOf(data) = Null
    \/ LET contribs == Get(CollOf(data), "commitContributionsByRepository", << >>)
       IN  \E i \in 1..Len(contribs) : RepoRaises(contribs[i])

\* lines 226-250 on a response that does not raise
FoldWindow(agg, data) ==
    LET coll == CollOf(data)
    IN  [totals     |-> FoldTotals(agg.totals, coll),
         monthly    |-> FoldCalendar(agg.monthly, coll),
         lang_bytes |-> FoldRepos(agg.lang_bytes,
                           Get(coll, "commitContributionsByRepository", << >>), 1)]

EmptyAgg == [totals |-> ZeroTotals, monthly |-> << >>, lang_bytes |-> << >>]

-----------------------------------------------------------------------------
(* The responses of the source: what gql_request returns to its caller *)

ActorKey == IF use_viewer THEN "viewer" ELSE "user"

Edge(name, color, size) == [size |-> size, node |-> [name |-> name, color |-> color]]

Repo(isFork, edges) ==
    [repository |-> [isFork |-> isFork, languages |-> [edges |-> edges]]]

Day(date, count) == [date |-> date, contributionCount |-> count]

Calendar(days) == [weeks |-> <<[contributionDays |-> days]>>]

Data(ak, coll) == ak :> [contributionsCollection |-> coll]

CollA ==
    [totalCommitContributions |-> 3,
     totalPullRequestContributions |-> 1,
     totalPullRequestReviewContributions |-> 2,
     totalIssueContributions |-> 1,
     contributionCalendar |-> Calendar(<<Day("2020-01-15", 2), Day("2020-02-03", 1)>>),
     commitContributionsByRepository |->
        <<Repo(FALSE, <<Edge("Python", "#3572A5", 100)>>),
          Repo(TRUE, <<Edge("Go", "#00ADD8", 50), Edge("Python", "#000000", 9)>>)>>]

CollB ==
    [totalCommitContributions |-> 5,
     totalPullRequestContributions |-> 0,
     totalPullRequestReviewContributions |-> 1,
     totalIssueContributions |-> 4,
     contributionCalendar |-> Calendar(<<Day("2020-02-10", 4), Day("2021-01-05", 1)>>),
     commitContributionsByRepository |->
        <<Repo(FALSE, <<Edge("Python", "#ffffff", 40),
                        [size |-> 7, node |-> [name |-> "C"]]>>)>>]

\* a partial collection: fields missing, a day without date, a repository
\* without isFork and an edge without node
CollPartial ==
    [totalCommitContributions |-> 2,
     contributionCalendar |-> Calendar(<<[contributionCount |-> 3]>>),
     commitContributionsByRepository |->
        <<[repository |-> [languages |-> [edges |-> <<[size |-> 5]>>]]],
          Repo(TRUE, <<Edge("Rust", "#dea584", 30)>>)>>]

CollNullRepo ==
    [totalCommitContributions |-> 1,
     commitContributionsByRepository |-> <<[repository |-> Null]>>]

\* The repositories of the source.  The query selects no identifier of a
\* repository (lines 136-147), so a window's payload lists them by isFork and
\* languages alone; here they come in the order of RepoOrder.
RepoOrder == <<"r1", "r2", "r3">>

RepoIds == {RepoOrder[i] : i \in 1..Len(RepoOrder)}

Repositories ==
    [r1 |-> Repo(FALSE, <<Edge("Python", "#3572A5", 100), Edge("C", "#555555", 7)>>),
     r2 |-> Repo(FALSE, <<Edge("Python", "#3572A5", 40)>>),
     r3 |-> Repo(TRUE, <<Edge("Go", "#00ADD8", 50)>>)]

\* the collection of a window in which the account committed to the
\* repositories S, one commit to each
CollOfRepos(S) ==
    LET ids == SelectSeq(RepoOrder, LAMBDA r : r \in S)
    IN  [totalCommitContributions |-> Len(ids),
         commitContributionsByRepository |->
            [i \in 1..Len(ids) |-> Repositories[ids[i]]]]

\* the window responses of each family
ContribResponses(ak, fam) ==
    IF fam \in {"chunk", "main"} THEN {Data(ak, CollA), Data(ak, CollB), Null}
    ELSE IF fam = "langs" THEN {Data(ak, CollOfRepos(S)) : S \in SUBSET RepoIds}
    ELSE {Data(ak, CollA), Data(ak, CollB), Data(ak, CollPartial),
          EmptyObj,                       \* errors only, or transport failure
          ak :> Null,                     \* "viewer": null
          Null,                           \* "data": null
          Data(ak, Null),                 \* "contributionsCollection": null
          Data(ak, CollNullRepo)}         \* "repository": null

AccountResponses(ak, fam) ==
    IF fam \in {"chunk", "main", "langs"}
    THEN {EmptyObj, ak :> [createdAt |-> "2020-01-02T09:15:00Z"]}
    ELSE {EmptyObj, ak :> [createdAt |-> "2020-01-02T09:15:00Z"], Null, ak :> Null}

\* main() is started late on 2021-08-31
MainStart == AddDays(0, 608) + TicksPerDay - 1

\* the times at which the run starts
NowTimes(fam) ==
    IF fam = "chunk" THEN 0 .. (AddDays(0, MaxNowDay + 1) - 1)
    ELSE IF fam = "main" THEN {MainStart}
    ELSE IF fam = "langs" THEN {AddDays(0, 300), AddDays(0, 400) + 1, AddDays(0, 735)}
    ELSE {AddDays(0, 100) + 1, AddDays(0, 400), AddDays(0, 735)}

-----------------------------------------------------------------------------
(* fetch_all_contributions *)

chunk_days == 365

\* chunk_end = min(chunk_start + timedelta(days=chunk_days - 1), now)
ChunkEnd(start, n) == Min(AddDays(start, chunk_days - 1), n)

\* a slip: chunk_start = chunk_end
NextStartSameDay(end) == end

\* chunk_start = chunk_end + timedelta(days=1)
NextStart(end) == AddDays(end, 1)

\* lines 195-199: the account query and the reading of the clock
AccountStep ==
    /\ pc = "account"
    /\ \E data \in AccountResponses(ActorKey, family) :
         IF data = Null \/ Get(data, ActorKey, EmptyObj) = Null
         THEN /\ pc' = "raised"
              /\ UNCHANGED <<created, now, chunk_start>>
         ELSE LET created_str == Get(Get(data, ActorKey, EmptyObj), "createdAt",
                                     "2020-01-01T00:00:00Z")
              IN  /\ created' = Strptime(Prefix(created_str, 10))
                  /\ now' = clock
                  /\ chunk_start' = created'
                  /\ pc' = "loop"
    /\ UNCHANGED <<use_viewer, family, windows, colls, totals, monthly, lang_bytes>>
    /\ UNCHANGED <<clock, gqlVars, repoVars, fmtVars, docVars>>

\* one iteration of the loop of lines 218-253
WindowStep ==
    /\ pc = "loop"
    /\ chunk_start < now
    /\ LET chunk_end == ChunkEnd(chunk_start, now)
           variables == [from |-> date_str(chunk_start), to |-> date_str(chunk_end)]
       IN  \E data \in ContribResponses(ActorKey, family) :
             /\ windows' = Append(windows, variables)
             /\ colls' = Append(colls, data)
             /\ IF FoldRaises(data)
                THEN /\ pc' = "raised"
                     /\ UNCHANGED <<chunk_start, totals, monthly, lang_bytes>>
                ELSE LET agg == FoldWindow([totals |-> totals, monthly |-> monthly,
                                            lang_bytes |-> lang_bytes], data)
                     IN  /\ totals' = agg.totals
                         /\ monthly' = agg.monthly
                         /\ lang_bytes' = agg.lang_bytes
                         /\ chunk_start' = NextStart(chunk_end)
                         /\ pc' = "loop"
    /\ UNCHANGED <<use_viewer, family, created, now>>
    /\ UNCHANGED <<clock, gqlVars, repoVars, fmtVars, docVars>>

\* line 255: return totals, monthly, lang_bytes
ContribReturn ==
    /\ pc = "loop"
    /\ ~(chunk_start < now)
    /\ pc' = "done"
    /\ UNCHANGED <<use_viewer, family, created, now, chunk_start, windows, colls,
                   totals, monthly, lang_bytes>>
    /\ UNCHANGED <<clock, gqlVars, repoVars, fmtVars, docVars>>

ContribInit(fam) ==
    /\ clock \in NowTimes(fam)
    /\ use_viewer \in BOOLEAN
    /\ pc = "account"
    /\ family = fam
    /\ created = 0
    /\ now = 0
    /\ chunk_start = 0
    /\ windows = << >>
    /\ colls = << >>
    /\ totals = ZeroTotals
    /\ monthly = << >>
    /\ lang_bytes = << >>

ContribNext == AccountStep \/ WindowStep \/ ContribReturn

\* the parts of the program a run does not enter
GqlIdle ==
    /\ gpc = "idle" /\ attempt = 0 /\ outcomes = << >> /\ sleeps = << >>
    /\ gresult = EmptyObj

RepoIdle ==
    /\ rpc = "idle" /\ cursor = "" /\ repo_count = 0 /\ star_count = 0
    /\ fetched = {} /\ refetched = {}

FmtIdle == fpc = "idle" /\ fn = 0 /\ fout = ""

DocIdle == dpc = "idle" /\ dmonthly = << >> /\ docs = << >>

\* fetch_all_contributions, for every account age up to MaxNowDay days
Init == ContribInit("chunk") /\ GqlIdle /\ RepoIdle /\ FmtIdle /\ DocIdle

Next == ContribNext

Spec == Init /\ [][Next]_vars

\* fetch_all_contributions against a source that answers with partial,
\* erroneous and null-valued responses
PartialInit == ContribInit("partial") /\ GqlIdle /\ RepoIdle /\ FmtIdle /\ DocIdle

PartialSpec == PartialInit /\ [][Next]_vars

\* fetch_all_contributions against a source whose windows list the
\* repositories of Repositories
LangInit == ContribInit("langs") /\ GqlIdle /\ RepoIdle /\ FmtIdle /\ DocIdle

LangSpec == LangInit /\ [][Next]_vars

-----------------------------------------------------------------------------
(* gql_request *)

\* for attempt in range(4)
MaxAttempts == 4

RECURSIVE Pow2(_)
Pow2(n) == IF n = 0 THEN 1 ELSE 2 * Pow2(n - 1)

\* a slip: time.sleep(2 * attempt)
LinearBackoff(a) == 2 * a

\* time.sleep(2 ** attempt)
Backoff(a) == Pow2(a)

\* what an attempt can meet: requests.post raising, raise_for_status raising
\* on a non-2xx status, r.json() raising, or a parsed body
Failures == {"network", "status", "badjson"}

Bodies ==
    {[data |-> [viewer |-> [createdAt |-> "2021-05-05T00:00:00Z"]]],
     [data |-> [user |-> [createdAt |-> "2019-12-31T23:00:00Z"]],
      errors |-> <<"partial">>],
     [errors |-> <<"bad credentials">>],
     [data |-> Null, errors |-> <<"not found">>]}

\* return data.get("data", {})
Returned(body) == Get(body, "data", EmptyObj)

\* one pass of the loop body of lines 94-103
GqlAttempt ==
    /\ gpc = "try"
    /\ attempt < MaxAttempts
    /\ \/ \E body \in Bodies :
            /\ outcomes' = Append(outcomes, [kind |-> "ok", body |-> body])
            /\ gresult' = Returned(body)
            /\ gpc' = "returned"
            /\ UNCHANGED <<attempt, sleeps>>
       \/ \E f \in Failures :
            /\ outcomes' = Append(outcomes, [kind |-> f])
            /\ sleeps' = Append(sleeps, Backoff(attempt))
            /\ attempt' = attempt + 1
            /\ UNCHANGED <<gpc, gresult>>
    /\ UNCHANGED <<clock, contribVars, repoVars, fmtVars, docVars>>

\* line 104: return {}
GqlGiveUp ==
    /\ gpc = "try"
    /\ attempt = MaxAttempts
    /\ gresult' = EmptyObj
    /\ gpc' = "returned"
    /\ UNCHANGED <<attempt, outcomes, sleeps>>
    /\ UNCHANGED <<clock, contribVars, repoVars, fmtVars, docVars>>

GqlNext == GqlAttempt \/ GqlGiveUp

ContribRest ==
    /\ pc = "idle" /\ family = "none"
    /\ created = 0 /\ now = 0 /\ chunk_start = 0 /\ windows = << >>
    /\ colls = << >> /\ totals = ZeroTotals /\ monthly = << >>
    /\ lang_bytes = << >>

ContribIdle == clock = 0 /\ use_viewer = FALSE /\ ContribRest

\* gresult starts as any value a previous call may have left
GqlInit ==
    /\ gpc = "try" /\ attempt = 0 /\ outcomes = << >> /\ sleeps = << >>
    /\ gresult \in {EmptyObj, Null, [viewer |-> EmptyObj]}
    /\ ContribIdle /\ RepoIdle /\ FmtIdle /\ DocIdle

\* one call of gql_request
GqlSpec == GqlInit /\ [][GqlNext]_vars

\* C3: when every attempt fails at transport level there are exactly
\* MaxAttempts attempts, the delay after the first failure is 1 s and doubles
\* after each further one, and the call returns the empty result; an attempt
\* that succeeds is the last one and the data of its body is returned.
C3_BoundedRetry ==
    LET n == Len(outcomes)
        failed(i) == outcomes[i].kind \in Failures
    IN  /\ n <= MaxAttempts
        /\ Len(sleeps) = Cardinality({i \in 1..n : failed(i)})
        /\ \A i \in 1..Len(sleeps) :
             sleeps[i] = IF i = 1 THEN 1 ELSE 2 * sleeps[i - 1]
        /\ \A i \in 1..n : ~failed(i) => (i = n /\ gpc = "returned")
        /\ (gpc = "returned" /\ \A i \in 1..n : failed(i))
              => (n = MaxAttempts /\ gresult = EmptyObj)
        /\ (gpc = "returned" /\ n > 0 /\ ~failed(n))
              => gresult = IF "data" \in DOMAIN outcomes[n].body
                           THEN outcomes[n].body.data ELSE EmptyObj

C3_Witness ==
    /\ gpc = "returned"
    /\ Len(outcomes) = MaxAttempts
    /\ \A i \in 1..Len(outcomes) : outcomes[i].kind \in {"network", "status"}
    /\ sleeps = <<1, 2, 4, 8>>
    /\ gresult = EmptyObj

-----------------------------------------------------------------------------
(* fetch_repo_stats *)

Node(stars) == [stargazerCount |-> stars, createdAt |-> "2021-01-01T00:00:00Z"]

Page(nodes, page_info) == [nodes |-> nodes, pageInfo |-> page_info]

NodeLists ==
    {<< >>, <<Node(1)>>, <<Node(0), [createdAt |-> "2022-02-02T00:00:00Z"], Node(2)>>}

PageInfos ==
    {[hasNextPage |-> TRUE, endCursor |-> "c1"],
     [hasNextPage |-> TRUE, endCursor |-> "c2"],
     [hasNextPage |-> TRUE],
     [hasNextPage |-> FALSE, endCursor |-> "c1"],
     [hasNextPage |-> FALSE]}

\* what gql_request can return for the repositories query
RepoResponses(ak) ==
    {ak :> [repositories |-> Page(nodes, info)] : nodes \in NodeLists, info \in PageInfos}
      \cup {ak :> [repositories |-> [nodes |-> << >>]],   \* no pageInfo
            EmptyObj,                                      \* errors only, or transport failure
            ak :> Null,                                    \* "viewer": null
            ak :> [repositories |-> Null],                 \* "repositories": null
            Null}                                          \* "data": null

\* repos_data = (data.get(actor_key) or {}).get("repositories", {})
ReposDataOf(data, ak) ==
    Get(OrObj(Get(data, ak, Null), EmptyObj), "repositories", EmptyObj)

\* whether lines 268-274 raise on this response
WalkRaises(data, ak) == data = Null \/ ReposDataOf(data, ak) = Null

RECURSIVE SumStars(_, _)
\* for node in nodes: star_count += node.get("stargazerCount", 0)
SumStars(nodes, i) ==
    IF i > Len(nodes) THEN 0
    ELSE Get(nodes[i], "stargazerCount", 0) + SumStars(nodes, i + 1)

\* cursor = page_info.get("endCursor"): None is modelled as "", which
\* build_repo_query treats alike (line 158: no after argument)
EndCursor(page_info) == Get(page_info, "endCursor", "")

\* one iteration of the loop of lines 266-278; a page is taken only while the
\* repositories counted stay within MaxRepos
RepoStep ==
    /\ rpc = "walk"
    /\ fetched' = fetched \cup {cursor}
    /\ refetched' = IF cursor \in fetched THEN refetched \cup {cursor} ELSE refetched
    /\ \E data \in RepoResponses(ActorKey) :
         IF WalkRaises(data, ActorKey)
         THEN /\ rpc' = "raised"
              /\ UNCHANGED <<cursor, repo_count, star_count>>
         ELSE LET repos_data == ReposDataOf(data, ActorKey)
                  nodes == Get(repos_data, "nodes", << >>)
                  page_info == Get(repos_data, "pageInfo", EmptyObj)
              IN  /\ repo_count + Len(nodes) <= MaxRepos
                  /\ repo_count' = repo_count + Len(nodes)
                  /\ star_count' = star_count + SumStars(nodes, 1)
                  /\ IF Get(page_info, "hasNextPage", FALSE)
                     THEN cursor' = EndCursor(page_info) /\ rpc' = "walk"
                     ELSE rpc' = "done" /\ UNCHANGED cursor
    /\ UNCHANGED <<clock, contribVars, gqlVars, fmtVars, docVars>>

RepoNext == RepoStep

RepoInit ==
    /\ rpc = "walk" /\ cursor = "" /\ repo_count = 0 /\ star_count = 0
    /\ fetched = {} /\ refetched = {}
    /\ clock = 0 /\ use_viewer \in BOOLEAN /\ ContribRest
    /\ GqlIdle /\ FmtIdle /\ DocIdle

\* one call of fetch_repo_stats
RepoSpec == RepoInit /\ [][RepoNext]_vars

\* the same, the loop never pausing of itself: the program is one thread
\* that runs each iteration to its end
RepoLiveSpec == RepoInit /\ [][RepoNext]_vars /\ WF_vars(RepoStep)

\* C2: the walk ends whatever the source answers, even when every page
\* reports hasNextPage = true.
C2_WalkEnds == <>(rpc \in {"done", "raised"})

\* C13: the walk starts with a null cursor and builds no two queries with
\* the same cursor: no page already consumed is fetched again, whatever
\* endCursor values the source returns with hasNextPage = true.
C13_NoCursorReuse ==
    /\ fetched # {} => "" \in fetched
    /\ refetched = {}

-----------------------------------------------------------------------------
(* fmt_num *)

RECURSIVE IntStr(_)
\* str(n), n >= 0
IntStr(n) == IF n < 10 THEN DigitStr(n) ELSE IntStr(n \div 10) \o DigitStr(n % 10)

RECURSIVE BitLen(_)
BitLen(q) == IF q = 0 THEN 0 ELSE 1 + BitLen(q \div 2)

RECURSIVE RemAfter(_, _, _)
\* (r * 2^k) % unit: what is left of r / unit after k binary places
RemAfter(r, unit, k) == IF k = 0 THEN r ELSE RemAfter((2 * r) % unit, unit, k - 1)

\* the sign of float(n / unit) - n / unit for n >= unit: true division rounds
\* the quotient to 53 significant bits, to nearest, ties to even
FloatErr(n, unit) ==
    LET q == n \div unit
        k == 53 - BitLen(q)
        rk == RemAfter(n % unit, unit, k)
        odd == IF k = 0 THEN q % 2 = 1
               ELSE (2 * RemAfter(n % unit, unit, k - 1)) \div unit = 1
    IN  IF rk = 0 THEN 0
        ELSE IF 2 * rk > unit THEN 1
        ELSE IF 2 * rk < unit THEN -1
        ELSE IF odd THEN 1 ELSE -1

\* the tenths of f"{n / unit:.1f}": the float is rounded to one decimal, to
\* nearest, ties (of the float's own value) to even
Tenths(n, unit) ==
    LET t == (10 * n) \div unit
        rem == (10 * n) % unit
        err == FloatErr(n, unit)
        up == \/ 2 * rem > unit
              \/ 2 * rem = unit /\ (err > 0 \/ (err = 0 /\ t % 2 = 1))
    IN  IF up THEN t + 1 ELSE t

\* f"{n / unit:.1f}"
OneDecimal(n, unit) ==
    LET t == Tenths(n, unit)
    IN  IntStr(t \div 10) \o "." \o DigitStr(t % 10)

fmt_num(n) ==
    IF n >= 1000000 THEN OneDecimal(n, 1000000) \o "M"
    ELSE IF n >= 1000 THEN OneDecimal(n, 1000) \o "k"
    ELSE IntStr(n)

\* the arguments tried: every small count, and values around each rounding
\* and suffix boundary
FmtInputs ==
    (0..MaxFmtSmall)
      \cup {m * 1000 + r : m \in {9, 10, 99, 100, 999, 1000, 1500, 9999, 12345},
                           r \in {0, 49, 50, 51, 250, 500, 750, 949, 950, 999}}
      \cup {m * 100000 + 50000 : m \in 10..40}

FmtCall ==
    /\ fpc = "call"
    /\ fout' = fmt_num(fn)
    /\ fpc' = "done"
    /\ UNCHANGED fn
    /\ UNCHANGED <<clock, contribVars, gqlVars, repoVars, docVars>>

FmtNext == FmtCall

FmtInit ==
    /\ fpc = "call" /\ fn \in FmtInputs /\ fout = ""
    /\ ContribIdle /\ GqlIdle /\ RepoIdle /\ DocIdle

\* one call of fmt_num
FmtSpec == FmtInit /\ [][FmtNext]_vars

\* the format the claim describes: as fmt_num, a trailing ".0" dropped
ClaimedFmt(n) ==
    LET unit == IF n >= 1000000 THEN 1000000 ELSE 1000
        t == Tenths(n, unit)
        suffix == IF n >= 1000000 THEN "M" ELSE "k"
    IN  IF n < 1000 THEN IntStr(n)
        ELSE IF t % 10 = 0 THEN IntStr(t \div 10) \o suffix
        ELSE IntStr(t \div 10) \o "." \o DigitStr(t % 10) \o suffix

\* C8: fmt_num gives the plain digits below 1000, and above it one decimal
\* with suffix k or M, a trailing ".0" dropped (1000 -> "1k", 1000000 -> "1M").
C8_DropsTrailingZero ==
    fpc = "done" =>
        /\ fout = ClaimedFmt(fn)
        /\ fn = 999 => fout = "999"
        /\ fn = 1000 => fout = "1k"
        /\ fn = 1500 => fout = "1.5k"
        /\ fn = 1000000 => fout = "1M"

-----------------------------------------------------------------------------
(* make_monthly_svg *)

DARK == [name |-> "dark", accent |-> "#58a6ff", area_fill |-> "#58a6ff33",
         axis |-> "#484f58", muted |-> "#8b949e"]
LIGHT == [name |-> "light", accent |-> "#0969da", area_fill |-> "#0969da22",
          axis |-> "#8c959f", muted |-> "#656d76"]

W == 1000
H == 200
chart_l == 48
chart_r == W - 24
chart_t == 48
chart_b == H - 36
chart_w == chart_r - chart_l
chart_h == chart_b - chart_t

\* for i in range(17, -1, -1): now - timedelta(days=i * 30)
MonthsShown == 18
StepDays == 30

\* the keys of the months list, oldest first
MonthKeys(n) ==
    [j \in 1..MonthsShown |-> StrfMonth(AddDays(n, -((MonthsShown - j) * StepDays)))]

RECURSIVE MaxOf(_, _)
MaxOf(seq, i) == IF i > Len(seq) THEN 0 ELSE Max(seq[i], MaxOf(seq, i + 1))

\* a coordinate, as the exact fraction <<numerator, denominator>>
RatEq(a, b) == a[1] * b[2] = b[1] * a[2]

\* a slip: gv = int(frac * max_val) + 1
GridValueUp(f, max_val) == (f * max_val) \div 4 + 1

\* gv = int(frac * max_val), frac = f / 4
GridValue(f, max_val) == (f * max_val) \div 4

\* gy = chart_b - frac * chart_h
GridY(f) == <<4 * chart_b - f * chart_h, 4>>

\* pt_y(v) = chart_b - (v / max_val) * chart_h
PtY(v, max_val) == <<chart_b * max_val - v * chart_h, max_val>>

\* pt_x(i) = chart_l + i * chart_w / (n_pts - 1)
PtX(i) == <<chart_l * (MonthsShown - 1) + i * chart_w, MonthsShown - 1>>

\* the chart of make_monthly_svg(theme, m) when the clock reads n
MakeMonthly(theme, m, n) ==
    LET months == MonthKeys(n)
        values == [j \in 1..MonthsShown |-> Get(m, months[j], 0)]
        top == MaxOf(values, 1)
        max_val == IF top = 0 THEN 1 ELSE top
    IN  [theme   |-> theme,
         now     |-> n,
         months  |-> months,
         values  |-> values,
         max_val |-> max_val,
         grid    |-> [f \in 1..4 |->
                        [y |-> GridY(f), label |-> fmt_num(GridValue(f, max_val))]],
         coords  |-> [j \in 1..MonthsShown |->
                        [x |-> PtX(j - 1), y |-> PtY(values[j], max_val)]]]

\* "monthly-dark.svg": make_monthly_svg(DARK, monthly)
RenderDark ==
    /\ dpc = "dark"
    /\ docs' = docs @@ ("dark" :> MakeMonthly(DARK, dmonthly, clock))
    /\ dpc' = "light"
    /\ UNCHANGED <<dmonthly, clock, contribVars, gqlVars, repoVars, fmtVars>>

\* "monthly-light.svg": make_monthly_svg(LIGHT, monthly)
RenderLight ==
    /\ dpc = "light"
    /\ docs' = docs @@ ("light" :> MakeMonthly(LIGHT, dmonthly, clock))
    /\ dpc' = "written"
    /\ UNCHANGED <<dmonthly, clock, contribVars, gqlVars, repoVars, fmtVars>>

RenderNext == RenderDark \/ RenderLight

\* the monthly histograms tried: none, one month, two months
MonthlyInputs ==
    {<< >>}
      \cup {k :> v : k \in {"2021-03", "2021-08"}, v \in 0..MaxVal}
      \cup {("2020-12" :> v) @@ ("2021-06" :> 2) @@ ("" :> 9) : v \in 0..MaxVal}

RenderTimes == AddDays(0, 590) .. (AddDays(0, 590 + RenderSpan + 1) - 1)

RenderInit ==
    /\ dpc = "dark" /\ docs = << >> /\ dmonthly \in MonthlyInputs
    /\ clock \in RenderTimes /\ use_viewer = FALSE /\ ContribRest
    /\ GqlIdle /\ RepoIdle /\ FmtIdle

\* the two calls of make_monthly_svg
RenderSpec == RenderInit /\ [][RenderNext]_vars

\* round(num / den), Python's: to nearest, ties to even
PyRound(num, den) ==
    LET q == num \div den
        r == num % den
    IN  IF 2 * r > den \/ (2 * r = den /\ q % 2 = 1) THEN q + 1 ELSE q

\* C10 (as claimed): the grid lines at 0.25, 0.5, 0.75 and 1.0 are labelled
\* round(frac * max_val), number-formatted, and the point of the month
\* holding the maximum lies at the y of the 100% grid line.
C10_GridLabelsRounded ==
    \A t \in DOMAIN docs :
        LET c == docs[t]
        IN  /\ \A f \in 1..4 : c.grid[f].label = fmt_num(PyRound(f * c.max_val, 4))
            /\ \A j \in 1..MonthsShown :
                 c.values[j] = c.max_val => RatEq(c.coords[j].y, c.grid[4].y)

\* the largest whole number not above num / den
Floor(num, den) == CHOOSE q \in 0..num : q * den <= num /\ num < (q + 1) * den

\* C10 (amended): the grid lines at 0.25, 0.5, 0.75 and 1.0 are labelled
\* frac * max_val cut down to a whole number (int(), not round()),
\* number-formatted, max_val being the largest value of the series and at
\* least 1, and the point of the month holding the maximum lies at the y of
\* the 100% grid line, the top of the chart.
C10_GridLabelsTruncated ==
    \A t \in DOMAIN docs :
        LET c == docs[t]
        IN  /\ c.max_val >= 1
            /\ \A j \in 1..MonthsShown : c.values[j] <= c.max_val
            /\ \A f \in 1..4 : c.grid[f].label = fmt_num(Floor(f * c.max_val, 4))
            /\ RatEq(c.grid[4].y, <<chart_t, 1>>)
            /\ \A j \in 1..MonthsShown :
                 c.values[j] = c.max_val => RatEq(c.coords[j].y, c.grid[4].y)

C10_Witness ==
    /\ dpc = "written"
    /\ docs["light"].max_val = 6
    /\ \E j \in 1..MonthsShown : docs["light"].values[j] = 6
    /\ docs["light"].grid[1].label = "1"
    /\ PyRound(1 * 6, 4) = 2

\* the key of the calendar month after the one of key k
NextMonthKey(k) ==
    LET y == ParseInt(k, 1, 4)
        m == ParseInt(k, 6, 7)
    IN  IF m = 12 THEN Pad4(y + 1) \o "-01" ELSE Pad4(y) \o "-" \o Pad2(m + 1)

\* C12: the months plotted are the last 18 calendar months: 18 distinct
\* "YYYY-MM" keys, oldest first, each the calendar successor of the one before,
\* the last the month of now, each plotted with its histogram value (0 if
\* absent).
C12_LastEighteenMonths ==
    \A t \in DOMAIN docs :
        LET c == docs[t]
        IN  /\ Len(c.months) = 18
            /\ \A i, j \in 1..Len(c.months) : i # j => c.months[i] # c.months[j]
            /\ \A j \in 1..(Len(c.months) - 1) :
                 c.months[j + 1] = NextMonthKey(c.months[j])
            /\ c.months[Len(c.months)] = StrfMonth(c.now)
            /\ \A j \in 1..Len(c.months) :
                 c.values[j] = Get(dmonthly, c.months[j], 0)

-----------------------------------------------------------------------------
(* main *)

\* time passes
Tick ==
    /\ clock < MainStart + MaxTicks
    /\ clock' = clock + 1
    /\ UNCHANGED <<contribVars, gqlVars, repoVars, fmtVars, docVars>>

\* line 648: repo_count, star_count = fetch_repo_stats()
MainCallRepos ==
    /\ pc = "done"
    /\ rpc = "idle"
    /\ rpc' = "walk"
    /\ UNCHANGED <<cursor, repo_count, star_count, fetched, refetched>>
    /\ UNCHANGED <<clock, contribVars, gqlVars, fmtVars, docVars>>

\* lines 657-665: the documents are made, the monthly ones last
MainCallRender ==
    /\ rpc = "done"
    /\ dpc = "idle"
    /\ dpc' = "dark"
    /\ dmonthly' = monthly
    /\ UNCHANGED docs
    /\ UNCHANGED <<clock, contribVars, gqlVars, repoVars, fmtVars>>

MainNext ==
    Tick \/ ContribNext \/ MainCallRepos \/ RepoNext \/ MainCallRender \/ RenderNext

MainInit == ContribInit("main") /\ GqlIdle /\ RepoIdle /\ FmtIdle /\ DocIdle

\* one run of main()
MainSpec == MainInit /\ [][MainNext]_vars

\* C7: the clock is read once, at the start of aggregation, and that reading
\* bounds the windows and anchors the 18 months of both monthly documents.
C7_OneClockReading ==
    \A t \in DOMAIN docs :
        /\ docs[t].now = now
        /\ docs[t].months = MonthKeys(now)
        /\ windows[Len(windows)].to = date_str(now)

-----------------------------------------------------------------------------
(* Reading the submitted windows back *)

FromDay(w) == DayOfTime(Strptime(Prefix(w.from, 10)))
ToDay(w) == DayOfTime(Strptime(Prefix(w.to, 10)))
FromTime(w) == Strptime(Prefix(w.from, 10))
ToTime(w) == Strptime(Prefix(w.to, 10))

Running == pc \in {"loop", "done"}

\* now is midnight and a whole number of chunks after created
WholeChunks == /\ now % TicksPerDay = 0
               /\ (DayOfTime(now) - DayOfTime(created)) % chunk_days = 0

\* C1 (as claimed): the submitted windows tile the half-open [created, now):
\* the first starts at created, each window's end is the next one's start,
\* each is at most 365 days wide and the last one's end equals now.
C1_TilesHalfOpen ==
    (pc = "done" /\ created < now) =>
        /\ windows # << >>
        /\ FromTime(windows[1]) = created
        /\ \A i \in 1..Len(windows) :
             /\ FromTime(windows[i]) <= ToTime(windows[i])
             /\ ToTime(windows[i]) - FromTime(windows[i]) <= AddDays(0, 365)
        /\ \A i \in 1..(Len(windows) - 1) :
             ToTime(windows[i]) = FromTime(windows[i + 1])
        /\ ToTime(windows[Len(windows)]) = now

\* C1 (amended): read as inclusive ranges of days from..to, the windows
\* submitted so far start at the day of created, each spans at most 365 days,
\* each starts the day after the previous one ends (no day skipped or covered
\* twice), and when the loop ends the last window's to is the day of now
\* (the day before when now is midnight a whole number of chunks after created).
C1_TilesInclusiveDays ==
    /\ windows # << >> => FromDay(windows[1]) = DayOfTime(created)
    /\ \A i \in 1..Len(windows) :
         /\ FromDay(windows[i]) <= ToDay(windows[i])
         /\ ToDay(windows[i]) - FromDay(windows[i]) + 1 <= 365
    /\ \A i \in 1..(Len(windows) - 1) :
         FromDay(windows[i + 1]) = ToDay(windows[i]) + 1
    /\ (pc = "done" /\ created < now) =>
         /\ windows # << >>
         /\ ToDay(windows[Len(windows)]) =
              IF WholeChunks THEN DayOfTime(now) - 1 ELSE DayOfTime(now)

C1_Witness ==
    /\ pc = "done"
    /\ Len(windows) = 3
    /\ now % TicksPerDay # 0
    /\ ToDay(windows[3]) = DayOfTime(now)

\* C9: an account created 400 days before now gets exactly 2 window queries,
\* the second narrower than 365 days, and every returned total is the sum of
\* the two windows' counts.
C9_FourHundredDays ==
    (pc = "done" /\ DayOfTime(now) - DayOfTime(created) = 400) =>
        /\ Len(windows) = 2
        /\ ToDay(windows[2]) - FromDay(windows[2]) + 1 < 365
        /\ LET c1 == CollOf(colls[1])
               c2 == CollOf(colls[2])
           IN  /\ totals.commits = c1.totalCommitContributions
                                     + c2.totalCommitContributions
               /\ totals.prs = c1.totalPullRequestContributions
                                 + c2.totalPullRequestContributions
               /\ totals.reviews = c1.totalPullRequestReviewContributions
                                     + c2.totalPullRequestReviewContributions
               /\ totals.issues = c1.totalIssueContributions
                                    + c2.totalIssueContributions

C9_Witness ==
    /\ pc = "done"
    /\ DayOfTime(now) - DayOfTime(created) = 400
    /\ Len(windows) = 2
    /\ colls[1] # colls[2]
    /\ totals.commits = 8

-----------------------------------------------------------------------------
(* Folding a whole sequence of responses, for the claims about the fold *)

RECURSIVE FoldFrom(_, _, _)
FoldFrom(agg, seq, i) ==
    IF i > Len(seq) THEN agg ELSE FoldFrom(FoldWindow(agg, seq[i]), seq, i + 1)

FoldAll(seq) == FoldFrom(EmptyAgg, seq, 1)

Reordered(seq, perm) == [i \in 1..Len(seq) |-> seq[perm[i]]]

BytesOf(lb) == [name \in DOMAIN lb |-> lb[name].bytes]

ReposOf(data) == Get(CollOf(data), "commitContributionsByRepository", << >>)

\* a record the source flags as a fork
FlaggedFork(contrib) ==
    /\ "repository" \in DOMAIN contrib
    /\ "isFork" \in DOMAIN contrib.repository
    /\ contrib.repository.isFork

\* the <<name, color>> pairs the non-fork records of a response report
ReportedColors(data) ==
    LET contribs == ReposOf(data)
    IN  UNION {
          LET edges == Get(Get(Get(contribs[i], "repository", EmptyObj),
                               "languages", EmptyObj), "edges", << >>)
          IN  IF FlaggedFork(contribs[i]) THEN {}
              ELSE {<<Get(Get(edges[j], "node", EmptyObj), "name", "Other"),
                      Get(Get(edges[j], "node", EmptyObj), "color", "")>> :
                       j \in 1..Len(edges)}
          : i \in 1..Len(contribs)}

\* every language is reported with one color throughout
OneColorEach(seq) ==
    LET pairs == UNION {ReportedColors(seq[i]) : i \in 1..Len(seq)}
    IN  \A p, q \in pairs : p[1] = q[1] => p[2] = q[2]

\* the response with its fork records removed
WithoutForks(data) ==
    IF "commitContributionsByRepository" \notin DOMAIN CollOf(data) THEN data
    ELSE Data("viewer",
              [CollOf(data) EXCEPT !["commitContributionsByRepository"] =
                  SelectSeq(@, LAMBDA c : ~FlaggedFork(c))])

\* C4 (as claimed): folding the same payloads in any order gives the same
\* totals and the same histogram, bytes and stored colors alike.
C4_AnyOrderSameHistogram ==
    Running =>
        \A perm \in Permutations(1..Len(colls)) :
            LET r == FoldAll(Reordered(colls, perm))
            IN  r.totals = totals /\ r.lang_bytes = lang_bytes

\* C4 (amended): folding the same payloads in any order gives the same
\* totals and the same bytes for every language name; the stored colors are
\* the same too when every language is reported with one color throughout.
C4_AnyOrderSameBytes ==
    Running =>
        \A perm \in Permutations(1..Len(colls)) :
            LET r == FoldAll(Reordered(colls, perm))
            IN  /\ r.totals = totals
                /\ BytesOf(r.lang_bytes) = BytesOf(lang_bytes)
                /\ OneColorEach(colls) => r.lang_bytes = lang_bytes

C4_Witness ==
    /\ pc = "done"
    /\ Len(colls) = 3
    /\ colls[1] # colls[2]
    /\ OneColorEach(colls)
    /\ "Python" \in DOMAIN lang_bytes
    /\ "Other" \in DOMAIN lang_bytes
    /\ lang_bytes["Python"].bytes = 200

\* C5: the histogram is the one the same payloads give with every fork
\* record removed.
C5_ForksContributeNothing ==
    Running =>
        lang_bytes =
            FoldAll([i \in 1..Len(colls) |-> WithoutForks(colls[i])]).lang_bytes

C5_Witness ==
    /\ pc = "done"
    /\ \E i \in 1..Len(colls) :
         \E j \in 1..Len(ReposOf(colls[i])) : FlaggedFork(ReposOf(colls[i])[j])
    /\ "Python" \in DOMAIN lang_bytes
    /\ "Go" \notin DOMAIN lang_bytes

\* the repositories the window answered by data lists
ContributedIn(data) ==
    CHOOSE S \in SUBSET RepoIds : CollOf(data) = CollOfRepos(S)

\* the non-fork repositories the account contributed to in any window
Contributing ==
    {r \in UNION {ContributedIn(colls[i]) : i \in 1..Len(colls)} :
        ~FlaggedFork(Repositories[r])}

\* the size repository r reports for the language name (0 if it has none)
RECURSIVE SizeIn(_, _, _)
SizeIn(edges, name, i) ==
    IF i > Len(edges) THEN 0
    ELSE (IF edges[i].node.name = name THEN edges[i].size ELSE 0)
            + SizeIn(edges, name, i + 1)

ReportedSize(r, name) == SizeIn(Repositories[r].repository.languages.edges, name, 1)

NamesOf(r) ==
    LET edges == Repositories[r].repository.languages.edges
    IN  {edges[i].node.name : i \in 1..Len(edges)}

RECURSIVE SumSizes(_, _)
SumSizes(S, name) ==
    IF S = {} THEN 0
    ELSE LET r == CHOOSE x \in S : TRUE
         IN  ReportedSize(r, name) + SumSizes(S \ {r}, name)

\* C11: after all windows are folded, the histogram has one entry per
\* language of the non-fork repositories contributed to, and its bytes are
\* the sum of the sizes those repositories report for it, each repository
\* counted once even when more than one window lists it.
C11_EachRepositoryOnce ==
    pc = "done" =>
        /\ DOMAIN lang_bytes = UNION {NamesOf(r) : r \in Contributing}
        /\ \A name \in DOMAIN lang_bytes :
             lang_bytes[name].bytes = SumSizes(Contributing, name)

\* the sum of the counts the responses carry under key k (0 where missing)
RECURSIVE SumCounts(_, _, _)
SumCounts(seq, k, i) ==
    IF i > Len(seq) THEN 0
    ELSE (IF seq[i] = Null \/ CollOf(seq[i]) = Null THEN 0
          ELSE Get(CollOf(seq[i]), k, 0)) + SumCounts(seq, k, i + 1)

\* C6: a parsed response with an errors field, a missing field or a null
\* field never makes fetch_all_contributions raise: it is folded in as
\* zero/empty, the totals being the sums of the counts that are present.
C6_PartialNeverRaises ==
    /\ pc # "raised"
    /\ totals.commits = SumCounts(colls, "totalCommitContributions", 1)
    /\ totals.prs = SumCounts(colls, "totalPullRequestContributions", 1)
    /\ totals.reviews = SumCounts(colls, "totalPullRequestReviewContributions", 1)
    /\ totals.issues = SumCounts(colls, "totalIssueContributions", 1)

====
